---- MODULE Spec2Model ----
(***************************************************************************)
(* Model of the two tracing demo programs go-bot-chat and go-bot-itsm:     *)
(* the read-process-respond loop of main, the per-turn span it creates,    *)
(* the batch span processor it exports through, and the ticket-draft       *)
(* heuristic of the ITSM variant.                                          *)
(*                                                                         *)
(* Go strings are modelled as sequences of one-character strings, so that  *)
(* strings.TrimSpace, strings.ToLower, strings.Contains and strings.Join   *)
(* are computed rather than assumed.                                       *)
(***************************************************************************)
EXTENDS Integers, Sequences, FiniteSets, TLC

(***************************************************************************)
(* Bounds of the model.                                                    *)
(***************************************************************************)
\* number of reader.ReadString calls explored in one session
MaxReads == 3
\* number of turns (spans) explored in one session
MaxTurns == 2
\* number of vocabulary words in a generated ticket-draft message
MaxWords == 2

(***************************************************************************)
(* The Go string functions the programs use.                               *)
(***************************************************************************)
UpperLetters == <<"A","B","C","D","E","F","G","H","I","J","K","L","M","N","O","P","Q","R","S","T","U","V","W","X","Y","Z">>
LowerLetters == <<"a","b","c","d","e","f","g","h","i","j","k","l","m","n","o","p","q","r","s","t","u","v","w","x","y","z">>

ToLowerChar(c) ==
  IF \E i \in 1..26 : UpperLetters[i] = c
    THEN LowerLetters[CHOOSE i \in 1..26 : UpperLetters[i] = c]
    ELSE c

ToUpperChar(c) ==
  IF \E i \in 1..26 : LowerLetters[i] = c
    THEN UpperLetters[CHOOSE i \in 1..26 : LowerLetters[i] = c]
    ELSE c

\* strings.ToLower
ToLower(s) == IF s = <<>> THEN <<>> ELSE [i \in 1..Len(s) |-> ToLowerChar(s[i])]

\* strings.ToUpper
ToUpper(s) == IF s = <<>> THEN <<>> ELSE [i \in 1..Len(s) |-> ToUpperChar(s[i])]

\* unicode.IsSpace restricted to the ASCII characters of the model
IsSpace(c) == c \in {" ", "\t", "\n", "\r", "\f"}

RECURSIVE TrimLeft(_)
TrimLeft(s) ==
  IF s = <<>> THEN <<>>
  ELSE IF IsSpace(Head(s)) THEN TrimLeft(Tail(s))
  ELSE s

RECURSIVE TrimRight(_)
TrimRight(s) ==
  IF s = <<>> THEN <<>>
  ELSE IF IsSpace(s[Len(s)]) THEN TrimRight(SubSeq(s, 1, Len(s) - 1))
  ELSE s

\* strings.TrimSpace
TrimSpace(s) == TrimRight(TrimLeft(s))

\* strings.Contains
Contains(s, substr) ==
  \E i \in 1..(Len(s) - Len(substr) + 1) :
     SubSeq(s, i, i + Len(substr) - 1) = substr

\* variant: the elements are concatenated without the separator
RECURSIVE Join_NoSeparator(_, _)
Join_NoSeparator(elems, sep) ==
  IF elems = <<>> THEN <<>>
  ELSE elems[1] \o Join_NoSeparator(Tail(elems), sep)

\* strings.Join
RECURSIVE Join(_, _)
Join(elems, sep) ==
  IF elems = <<>> THEN <<>>
  ELSE IF Len(elems) = 1 THEN elems[1]
  ELSE elems[1] \o sep \o Join(Tail(elems), sep)

(***************************************************************************)
(* go-bot-itsm: inferAccessRequestDraft.                                   *)
(***************************************************************************)
\* variant: the production marker does not change the resource
inferResource_NoSuffix(lower) ==
  IF Contains(lower, <<"g","i","t","h","u","b">>) THEN <<"g","i","t","h","u","b">>
  ELSE IF Contains(lower, <<"d","a","t","a","d","o","g">>) THEN <<"d","a","t","a","d","o","g">>
  ELSE IF Contains(lower, <<"s","n","o","w","f","l","a","k","e">>) THEN <<"s","n","o","w","f","l","a","k","e">>
  ELSE <<"u","n","k","n","o","w","n">>

\* variant: the first vocabulary match is kept instead of the last
inferResource_FirstMatchWins(lower) ==
  LET base == IF Contains(lower, <<"s","n","o","w","f","l","a","k","e">>) THEN <<"s","n","o","w","f","l","a","k","e">>
              ELSE IF Contains(lower, <<"d","a","t","a","d","o","g">>) THEN <<"d","a","t","a","d","o","g">>
              ELSE IF Contains(lower, <<"g","i","t","h","u","b">>) THEN <<"g","i","t","h","u","b">>
              ELSE <<"u","n","k","n","o","w","n">>
  IN IF Contains(lower, <<"p","r","o","d">>) \/ Contains(lower, <<"p","r","o","d","u","c","t","i","o","n">>)
       THEN base \o <<"_","p","r","o","d">>
       ELSE base

\* resource: later vocabulary matches overwrite earlier ones, then the suffix
inferResource(lower) ==
  LET r0 == <<"u","n","k","n","o","w","n">>
      r1 == IF Contains(lower, <<"s","n","o","w","f","l","a","k","e">>) THEN <<"s","n","o","w","f","l","a","k","e">> ELSE r0
      r2 == IF Contains(lower, <<"d","a","t","a","d","o","g">>) THEN <<"d","a","t","a","d","o","g">> ELSE r1
      r3 == IF Contains(lower, <<"g","i","t","h","u","b">>) THEN <<"g","i","t","h","u","b">> ELSE r2
  IN IF Contains(lower, <<"p","r","o","d">>) \/ Contains(lower, <<"p","r","o","d","u","c","t","i","o","n">>)
       THEN r3 \o <<"_","p","r","o","d">>
       ELSE r3

\* variant: the write keyword is tested before the read keyword
inferAccessLevel_WriteBeforeRead(lower) ==
  IF Contains(lower, <<"a","d","m","i","n">>) THEN <<"a","d","m","i","n">>
  ELSE IF Contains(lower, <<"w","r","i","t","e">>) THEN <<"w","r","i","t","e">>
  ELSE IF Contains(lower, <<"r","e","a","d">>) THEN <<"r","e","a","d">>
  ELSE <<"u","n","k","n","o","w","n">>

inferAccessLevel(lower) ==
  IF Contains(lower, <<"a","d","m","i","n">>) THEN <<"a","d","m","i","n">>
  ELSE IF Contains(lower, <<"r","e","a","d">>) THEN <<"r","e","a","d">>
  ELSE IF Contains(lower, <<"w","r","i","t","e">>) THEN <<"w","r","i","t","e">>
  ELSE <<"u","n","k","n","o","w","n">>

\* variant: the 7-day combination is tested before the 24-hour combination
inferDuration_SevenFirst(lower) ==
  IF Contains(lower, <<"7">>) /\ Contains(lower, <<"d","a","y">>) THEN <<"7","d">>
  ELSE IF Contains(lower, <<"2","4">>) /\ Contains(lower, <<"h","o","u","r">>) THEN <<"2","4","h">>
  ELSE <<"u","n","k","n","o","w","n">>

inferDuration(lower) ==
  IF Contains(lower, <<"2","4">>) /\ Contains(lower, <<"h","o","u","r">>) THEN <<"2","4","h">>
  ELSE IF Contains(lower, <<"7">>) /\ Contains(lower, <<"d","a","y">>) THEN <<"7","d">>
  ELSE <<"u","n","k","n","o","w","n">>

\* variant: only the production marker raises the risk
inferRisk_ProdOnly(lower) ==
  IF Contains(lower, <<"p","r","o","d">>) THEN <<"h","i","g","h">> ELSE <<"m","e","d","i","u","m">>

\* variant: the risk defaults to a low tier
inferRisk_LowDefault(lower) ==
  IF Contains(lower, <<"p","r","o","d">>) \/ Contains(lower, <<"a","d","m","i","n">>)
    THEN <<"h","i","g","h">>
    ELSE <<"l","o","w">>

inferRisk(lower) ==
  IF Contains(lower, <<"p","r","o","d">>) \/ Contains(lower, <<"a","d","m","i","n">>)
    THEN <<"h","i","g","h">>
    ELSE <<"m","e","d","i","u","m">>

\* uuid and now stand for uuid.New().String() and the formatted clock reading
inferAccessRequestDraft(message, uuid, now) ==
  LET lower == ToLower(message) IN
  [ ID                 |-> <<"A","R","-">> \o ToUpper(SubSeq(uuid, 1, 8)),
    Type               |-> <<"a","c","c","e","s","s","_","r","e","q","u","e","s","t">>,
    RequestedFor       |-> <<"s","e","l","f">>,
    Resource           |-> inferResource(lower),
    AccessLevel        |-> inferAccessLevel(lower),
    Duration           |-> inferDuration(lower),
    BusinessJustif     |-> <<"p","r","o","v","i","d","e","d","_","i","n","_","c","h","a","t">>,
    ApprovalsRequired  |-> <<"m","a","n","a","g","e","r"," ","+"," ","s","y","s","t","e","m","_","o","w","n","e","r">>,
    RiskLevel          |-> inferRisk(lower),
    Status             |-> <<"d","r","a","f","t">>,
    CreatedAt          |-> now,
    RecommendedActions |-> <<"c","o","l","l","e","c","t"," ","j","u","s","t","i","f","i","c","a","t","i","o","n",";"," ","c","o","n","f","i","r","m"," ","d","u","r","a","t","i","o","n",";"," ","r","o","u","t","e"," ","f","o","r"," ","a","p","p","r","o","v","a","l",";"," ","p","r","o","v","i","s","i","o","n"," ","a","c","c","e","s","s",";"," ","l","o","g"," ","a","u","d","i","t">> ]

\* json.MarshalIndent of an AccessRequest: the members in struct order, each
\* under its json tag
MarshalIndent(d) ==
  << <<"id", d.ID>>, <<"type", d.Type>>, <<"requested_for", d.RequestedFor>>,
     <<"resource", d.Resource>>, <<"access_level", d.AccessLevel>>,
     <<"duration", d.Duration>>,
     <<"business_justification", d.BusinessJustif>>,
     <<"approvals_required", d.ApprovalsRequired>>,
     <<"risk_level", d.RiskLevel>>, <<"status", d.Status>>,
     <<"created_at", d.CreatedAt>>,
     <<"recommended_actions", d.RecommendedActions>> >>

(***************************************************************************)
(* Inputs of a session.                                                    *)
(***************************************************************************)
\* which of the two programs runs
Apps == {"chat", "itsm"}

\* values of an API key in the process environment; "" is an unset variable
EnvValues == {"", "key"}

\* values uuid.New().String() can return
UUIDs == { <<"3","f","2","a","9","c","1","e","-","5","b","7","d","-","4","e","2","1","-","9","a","1","0","-","c","0","f","f","e","e","0","0","0","0","0","1">>,
           <<"b","8","1","d","4","4","a","a","-","0","c","3","e","-","4","f","6","b","-","8","d","2","f","-","c","0","f","f","e","e","0","0","0","0","0","2">> }

\* values time.Now().UTC().Format(time.RFC3339) can return
Timestamps == { <<"2","0","2","5","-","0","1","-","0","1","T","0","0",":","0","0",":","0","0","Z">> }

\* lines reader.ReadString('\n') can return without error (delimiter included)
Lines == { <<"q","u","i","t","\n">>, <<" "," ","Q","u","I","t"," ","\r","\n">>, <<"\n">>, <<" ","\t"," ","\n">>,
           <<"h","i","\n">>, <<"p","l","e","a","s","e"," ","q","u","i","t","\n">> }

\* what reader.ReadString returns together with an error: the data read
\* before the error
Fragments == { <<>>, <<"q","u","i","t">> }

\* responses of client.Messages.New
Responses ==
  { [ Content |-> << [Type |-> "text", Text |-> <<"H","e","l","l","o">>],
                     [Type |-> "text", Text |-> <<"t","h","e","r","e">>] >>,
      Usage   |-> [InputTokens |-> 12, OutputTokens |-> 5] ],
    [ Content |-> << [Type |-> "tool_use", Text |-> <<>>],
                     [Type |-> "text", Text |-> <<"o","k">>] >>,
      Usage   |-> [InputTokens |-> 20, OutputTokens |-> 1] ] }

NoResponse == [ Content |-> <<>>, Usage |-> [InputTokens |-> 0, OutputTokens |-> 0] ]

NoDraft == [ ID |-> <<>>, Type |-> <<>>, RequestedFor |-> <<>>, Resource |-> <<>>,
             AccessLevel |-> <<>>, Duration |-> <<>>, BusinessJustif |-> <<>>,
             ApprovalsRequired |-> <<>>, RiskLevel |-> <<>>, Status |-> <<>>,
             CreatedAt |-> <<>>, RecommendedActions |-> <<>> ]

\* words the generated ticket-draft messages are made of
Vocabulary == { <<"S","n","o","w","f","l","a","k","e">>, <<"d","a","t","a","d","o","g">>, <<"G","i","t","H","u","b">>, <<"p","r","o","d">>, <<"p","r","o","d","u","c","t","i","o","n">>,
                <<"A","d","m","i","n">>, <<"r","e","a","d">>, <<"w","r","i","t","e">>, <<"2","4">>, <<"7">>, <<"h","o","u","r","s">>,
                <<"d","a","y","s">>, <<"a","c","c","e","s","s">>, <<"t","h","r","e","a","d">> }

RECURSIVE WordSeqs(_)
WordSeqs(n) ==
  IF n = 0 THEN { <<>> }
  ELSE LET shorter == WordSeqs(n - 1)
       IN shorter \cup { Append(ws, w) : ws \in shorter, w \in Vocabulary }

\* messages given to inferAccessRequestDraft
DraftMessages ==
  { Join(ws, <<" ">>) : ws \in WordSeqs(MaxWords) }
  \cup { <<"I"," ","n","e","e","d"," ","a","d","m","i","n"," ","a","c","c","e","s","s"," ","t","o"," ","D","a","t","a","d","o","g"," ","p","r","o","d"," ","f","o","r"," ","7"," ","d","a","y","s">>,
         <<"n","e","e","d"," ","r","e","a","d"," ","a","c","c","e","s","s"," ","t","o"," ","g","i","t","h","u","b"," ","f","o","r"," ","2","4"," ","h","o","u","r"," ","w","i","n","d","o","w">>,
         <<"2","4"," ","h","o","u","r","s"," ","o","r"," ","7"," ","d","a","y","s">>,
         <<"a"," ","7","-","y","e","a","r","-","o","l","d"," ","s","y","s","t","e","m",","," ","n","e","e","d"," ","d","a","y"," ","a","c","c","e","s","s">>,
         <<"w","r","i","t","e",","," ","r","e","a","d"," ","a","n","d"," ","A","D","M","I","N"," ","r","i","g","h","t","s">>,
         <<"S","n","o","w","f","l","a","k","e",","," ","D","a","t","a","d","o","g"," ","a","n","d"," ","G","i","t","H","u","b"," ","i","n"," ","p","r","o","d","u","c","t","i","o","n"," ","(","p","r","o","d",")">> }

(***************************************************************************)
(* State.                                                                  *)
(***************************************************************************)
VARIABLES
  app,                  \* the program that runs
  langsmithKey,         \* os.Getenv("LANGSMITH_API_KEY")
  anthropicKey,         \* os.Getenv("ANTHROPIC_API_KEY")
  pc,                   \* position of main
  threadID,             \* threadID
  nread,                \* number of ReadString calls made on reader
  line,                 \* what the last ReadString call returned
  userMessage,          \* userMessage
  err,                  \* err of the last read or model call
  conversationHistory,  \* conversationHistory
  spans,                \* every span tracer.Start has created, in order
  turnSpan,             \* turnSpan: index in spans of the current turn's span
  resp,                 \* resp
  responseText,         \* responseText
  ticketDraft,          \* ticketDraft
  modelCalls,           \* the calls of client.Messages.New
  queue,                \* batch span processor: ended spans not yet exported
  exported,             \* spans the exporter has sent
  flushCalls,           \* calls of tp.ForceFlush and tp.Shutdown
  tpShutdown            \* the tracer provider has been shut down

vars == << app, langsmithKey, anthropicKey, pc, threadID, nread, line, userMessage,
           err, conversationHistory, spans, turnSpan, resp, responseText,
           ticketDraft, modelCalls, queue, exported, flushCalls, tpShutdown >>

(***************************************************************************)
(* Spans and the batch span processor, as the programs use them.           *)
(* A span is the sequence of the calls made on it.                         *)
(***************************************************************************)
\* tracer.Start(ctx, name, trace.WithAttributes(attrs...))
tracerStart(name, attrs) ==
  [ name |-> name, events |-> << [op |-> "Start", attrs |-> attrs] >> ]

\* span.SetAttributes(attrs...)
SetAttributes(span, attrs) ==
  [ span EXCEPT !.events = Append(@, [op |-> "SetAttributes", attrs |-> attrs]) ]

\* span.End()
End(span) ==
  [ span EXCEPT !.events = Append(@, [op |-> "End", attrs |-> <<>>]) ]

\* the span has been ended
IsEnded(span) == \E i \in 1..Len(span.events) : span.events[i].op = "End"

\* number of End calls made on the span
EndCalls(span) == Cardinality({ i \in 1..Len(span.events) : span.events[i].op = "End" })

\* the attributes a sequence of calls has recorded: a span stops recording
\* at its first End
RECURSIVE RecordedOf(_)
RecordedOf(events) ==
  IF events = <<>> \/ Head(events).op = "End" THEN <<>>
  ELSE Head(events).attrs \o RecordedOf(Tail(events))

RecordedAttrs(span) == RecordedOf(span.events)

\* the batch span processor's OnEnd: the first End of a span puts a snapshot
\* of it into the export queue
OnEnd(q, id, span) ==
  IF IsEnded(span) THEN q
  ELSE Append(q, [id |-> id, name |-> span.name, attrs |-> RecordedAttrs(span)])

\* the span name and the attributes given to tracer.Start for a turn
TurnSpanName(a) == IF a = "chat" THEN "chat_turn" ELSE "itsm_turn"

\* variant: the session id is a fixed identifier, not the session's thread id
TurnStartAttrs_FixedSession(a, tid, msg) ==
  << <<"langsmith.trace.name", IF a = "chat" THEN <<"g","o","-","b","o","t">> ELSE <<"g","o","-","b","o","t","-","i","t","s","m">>>>,
     <<"langsmith.metadata.session_id", <<"3","f","2","a","9","c","1","e","-","5","b","7","d","-","4","e","2","1","-","9","a","1","0","-","c","0","f","f","e","e","0","0","0","0","0","1">>>>,
     <<"langsmith.span.kind", <<"c","h","a","i","n">>>>,
     <<"gen_ai.prompt", msg>> >>
  \o (IF a = "chat" THEN <<>> ELSE << <<"itsm.category", <<"a","c","c","e","s","s","_","r","e","q","u","e","s","t","_","d","e","m","o">>>> >>)

TurnStartAttrs(a, tid, msg) ==
  IF a = "chat"
    THEN << <<"langsmith.trace.name", <<"g","o","-","b","o","t">>>>,
            <<"langsmith.metadata.session_id", tid>>,
            <<"langsmith.span.kind", <<"c","h","a","i","n">>>>,
            <<"gen_ai.prompt", msg>> >>
    ELSE << <<"langsmith.trace.name", <<"g","o","-","b","o","t","-","i","t","s","m">>>>,
            <<"langsmith.metadata.session_id", tid>>,
            <<"langsmith.span.kind", <<"c","h","a","i","n">>>>,
            <<"gen_ai.prompt", msg>>,
            <<"itsm.category", <<"a","c","c","e","s","s","_","r","e","q","u","e","s","t","_","d","e","m","o">>>> >>

\* variant: the prompt is set again together with the completion
TurnEndAttrs_ResetsPrompt(a, text, usage, draft) ==
  << <<"gen_ai.prompt", text>>,
     <<"gen_ai.completion", text>>,
     <<"gen_ai.usage.input_tokens", usage.InputTokens>>,
     <<"gen_ai.usage.output_tokens", usage.OutputTokens>> >>
  \o (IF a = "chat" THEN <<>>
      ELSE << <<"itsm.ticket_draft_json", MarshalIndent(draft)>> >>)

\* the attributes set after a successful model call
TurnEndAttrs(a, text, usage, draft) ==
  IF a = "chat"
    THEN << <<"gen_ai.completion", text>>,
            <<"gen_ai.usage.input_tokens", usage.InputTokens>>,
            <<"gen_ai.usage.output_tokens", usage.OutputTokens>> >>
    ELSE << <<"gen_ai.completion", text>>,
            <<"gen_ai.usage.input_tokens", usage.InputTokens>>,
            <<"gen_ai.usage.output_tokens", usage.OutputTokens>>,
            <<"itsm.ticket_draft_json", MarshalIndent(draft)>> >>

\* anthropic.NewUserMessage / NewAssistantMessage of one text block
NewUserMessage(text) == [role |-> "user", text |-> text]
NewAssistantMessage(text) == [role |-> "assistant", text |-> text]

\* the texts of the blocks of type "text", in order
RECURSIVE TextParts(_)
TextParts(content) ==
  IF content = <<>> THEN <<>>
  ELSE IF Head(content).Type = "text"
    THEN <<Head(content).Text>> \o TextParts(Tail(content))
    ELSE TextParts(Tail(content))

\* variant: no line is skipped as empty
IsEmptyInput_Never(msg) == FALSE

\* the test that skips an empty line
IsEmptyInput(msg) == msg = <<>>

\* variant: the exit test compares without lower-casing
IsQuit_CaseSensitive(msg) == msg = <<"q","u","i","t">>

\* the exit test of the loop
IsQuit(msg) == ToLower(msg) = <<"q","u","i","t">>

\* timeout of the shutdown closure initTracer returns, in seconds
ShutdownTimeoutSec == 10

(***************************************************************************)
(* Initial state: the process has been started, main has not run yet.      *)
(***************************************************************************)
Init ==
  /\ app \in Apps
  /\ langsmithKey \in EnvValues
  /\ anthropicKey \in EnvValues
  /\ pc = "start"
  /\ threadID = <<>>
  /\ nread = 0
  /\ line = <<>>
  /\ userMessage = <<>>
  /\ err = "nil"
  /\ conversationHistory = <<>>
  /\ spans = <<>>
  /\ turnSpan = 0
  /\ resp = NoResponse
  /\ responseText = <<>>
  /\ ticketDraft = NoDraft
  /\ modelCalls = <<>>
  /\ queue = <<>>
  /\ exported = <<>>
  /\ flushCalls = <<>>
  /\ tpShutdown = FALSE

(***************************************************************************)
(* main up to the loop: key validation, initTracer, the thread id.         *)
(***************************************************************************)
\* variant: only the trace backend key is validated
Startup_NoAnthropicCheck ==
  /\ pc = "start"
  /\ \E tracerOK \in BOOLEAN, id \in UUIDs :
       IF langsmithKey = "" \/ ~tracerOK
         THEN /\ pc' = "fatal"
              /\ UNCHANGED threadID
         ELSE /\ pc' = "read"
              /\ threadID' = id
  /\ UNCHANGED << app, langsmithKey, anthropicKey, nread, line, userMessage, err,
                  conversationHistory, spans, turnSpan, resp, responseText,
                  ticketDraft, modelCalls, queue, exported, flushCalls,
                  tpShutdown >>

Startup ==
  /\ pc = "start"
  /\ \E tracerOK \in BOOLEAN, id \in UUIDs :
       IF langsmithKey = "" \/ anthropicKey = "" \/ ~tracerOK
         THEN /\ pc' = "fatal"
              /\ UNCHANGED threadID
         ELSE /\ pc' = "read"
              /\ threadID' = id
  /\ UNCHANGED << app, langsmithKey, anthropicKey, nread, line, userMessage, err,
                  conversationHistory, spans, turnSpan, resp, responseText,
                  ticketDraft, modelCalls, queue, exported, flushCalls,
                  tpShutdown >>

(***************************************************************************)
(* One pass of the loop from the prompt to the model call: read a line,    *)
(* skip it, leave the loop on quit, or start a turn.                       *)
(***************************************************************************)
\* variant: the model call is made with the root context, not the span's
StartTurn_RootContext(msg) ==
  /\ Len(spans) < MaxTurns
  /\ conversationHistory' = Append(conversationHistory, NewUserMessage(msg))
  /\ spans' = Append(spans, tracerStart(TurnSpanName(app),
                                        TurnStartAttrs(app, threadID, msg)))
  /\ turnSpan' = Len(spans) + 1
  /\ modelCalls' = Append(modelCalls,
                          [ ctxSpan  |-> 0,
                            System   |-> (app = "itsm"),
                            Messages |-> Append(conversationHistory,
                                                NewUserMessage(msg)) ])
  /\ pc' = "call"

\* variant: the model is sent the new message only, not the history
StartTurn_OnlyLastMessage(msg) ==
  /\ Len(spans) < MaxTurns
  /\ conversationHistory' = Append(conversationHistory, NewUserMessage(msg))
  /\ spans' = Append(spans, tracerStart(TurnSpanName(app),
                                        TurnStartAttrs(app, threadID, msg)))
  /\ turnSpan' = Len(spans) + 1
  /\ modelCalls' = Append(modelCalls,
                          [ ctxSpan  |-> Len(spans) + 1,
                            System   |-> (app = "itsm"),
                            Messages |-> << NewUserMessage(msg) >> ])
  /\ pc' = "call"

\* the turn's user entry, its span and the model call made in its context
StartTurn(msg) ==
  /\ Len(spans) < MaxTurns
  /\ conversationHistory' = Append(conversationHistory, NewUserMessage(msg))
  /\ spans' = Append(spans, tracerStart(TurnSpanName(app),
                                        TurnStartAttrs(app, threadID, msg)))
  /\ turnSpan' = Len(spans) + 1
  /\ modelCalls' = Append(modelCalls,
                          [ ctxSpan  |-> Len(spans) + 1,
                            System   |-> (app = "itsm"),
                            Messages |-> Append(conversationHistory,
                                                NewUserMessage(msg)) ])
  /\ pc' = "call"

\* variant: what was read is processed even when the read failed
ReadLine_IgnoresReadError ==
  /\ pc = "read"
  /\ nread < MaxReads
  /\ nread' = nread + 1
  /\ \E readOK \in BOOLEAN :
       \E data \in (IF readOK THEN Lines ELSE Fragments) :
         /\ line' = data
         /\ userMessage' = TrimSpace(data)
         /\ err' = IF readOK THEN "nil" ELSE "read"
         /\ IF IsEmptyInput(TrimSpace(data))
              THEN /\ pc' = "read"
                   /\ UNCHANGED << conversationHistory, spans, turnSpan,
                                   modelCalls >>
              ELSE IF IsQuit(TrimSpace(data))
                THEN /\ pc' = "quit"
                     /\ UNCHANGED << conversationHistory, spans, turnSpan,
                                     modelCalls >>
                ELSE StartTurn(TrimSpace(data))
  /\ UNCHANGED << app, langsmithKey, anthropicKey, threadID, resp, responseText,
                  ticketDraft, queue, exported, flushCalls, tpShutdown >>

\* variant: a failed read ends the loop as a quit line does
ReadLine_ExitsOnReadError ==
  /\ pc = "read"
  /\ nread < MaxReads
  /\ nread' = nread + 1
  /\ \E readOK \in BOOLEAN :
       \E data \in (IF readOK THEN Lines ELSE Fragments) :
         /\ line' = data
         /\ IF ~readOK
              THEN /\ userMessage' = data
                   /\ err' = "read"
                   /\ pc' = "quit"
                   /\ UNCHANGED << conversationHistory, spans, turnSpan,
                                   modelCalls >>
              ELSE /\ userMessage' = TrimSpace(data)
                   /\ err' = "nil"
                   /\ IF IsEmptyInput(TrimSpace(data))
                        THEN /\ pc' = "read"
                             /\ UNCHANGED << conversationHistory, spans,
                                             turnSpan, modelCalls >>
                        ELSE IF IsQuit(TrimSpace(data))
                          THEN /\ pc' = "quit"
                               /\ UNCHANGED << conversationHistory, spans,
                                               turnSpan, modelCalls >>
                          ELSE StartTurn(TrimSpace(data))
  /\ UNCHANGED << app, langsmithKey, anthropicKey, threadID, resp, responseText,
                  ticketDraft, queue, exported, flushCalls, tpShutdown >>

ReadLine ==
  /\ pc = "read"
  /\ nread < MaxReads
  /\ nread' = nread + 1
  /\ \E readOK \in BOOLEAN :
       \E data \in (IF readOK THEN Lines ELSE Fragments) :
         /\ line' = data
         /\ IF ~readOK
              THEN /\ userMessage' = data
                   /\ err' = "read"
                   /\ pc' = "read"
                   /\ UNCHANGED << conversationHistory, spans, turnSpan,
                                   modelCalls >>
              ELSE /\ userMessage' = TrimSpace(data)
                   /\ err' = "nil"
                   /\ IF IsEmptyInput(TrimSpace(data))
                        THEN /\ pc' = "read"
                             /\ UNCHANGED << conversationHistory, spans,
                                             turnSpan, modelCalls >>
                        ELSE IF IsQuit(TrimSpace(data))
                          THEN /\ pc' = "quit"
                               /\ UNCHANGED << conversationHistory, spans,
                                               turnSpan, modelCalls >>
                          ELSE StartTurn(TrimSpace(data))
  /\ UNCHANGED << app, langsmithKey, anthropicKey, threadID, resp, responseText,
                  ticketDraft, queue, exported, flushCalls, tpShutdown >>

(***************************************************************************)
(* The rest of the pass: the model call returns.                           *)
(***************************************************************************)
\* variant: the error path continues without ending the span
TurnFailed_NoEnd ==
  /\ err' = "api"
  /\ resp' = NoResponse
  /\ UNCHANGED << spans, queue, conversationHistory, responseText, ticketDraft >>

\* variant: the error path records an empty assistant entry
TurnFailed_AppendsAssistant ==
  /\ err' = "api"
  /\ resp' = NoResponse
  /\ spans' = [spans EXCEPT ![turnSpan] = End(@)]
  /\ queue' = OnEnd(queue, turnSpan, spans[turnSpan])
  /\ conversationHistory' = Append(conversationHistory, NewAssistantMessage(<<>>))
  /\ UNCHANGED << responseText, ticketDraft >>

\* the error path: log, end the span, continue
TurnFailed ==
  /\ err' = "api"
  /\ resp' = NoResponse
  /\ spans' = [spans EXCEPT ![turnSpan] = End(@)]
  /\ queue' = OnEnd(queue, turnSpan, spans[turnSpan])
  /\ UNCHANGED << conversationHistory, responseText, ticketDraft >>

\* variant: the span is ended before the attributes are set
TurnSucceeded_EndBeforeSet(r, uuid, now) ==
  LET text  == Join(TextParts(r.Content), <<"\n">>)
      draft == IF app = "itsm"
                 THEN inferAccessRequestDraft(userMessage, uuid, now)
                 ELSE ticketDraft
  IN /\ err' = "nil"
     /\ resp' = r
     /\ responseText' = text
     /\ ticketDraft' = draft
     /\ conversationHistory' = Append(conversationHistory, NewAssistantMessage(text))
     /\ spans' = [spans EXCEPT ![turnSpan] =
                    SetAttributes(End(@), TurnEndAttrs(app, text, r.Usage, draft))]
     /\ queue' = OnEnd(queue, turnSpan, spans[turnSpan])

\* the success path: join the text blocks, set the attributes, append the
\* assistant entry, end the span
TurnSucceeded(r, uuid, now) ==
  LET text  == Join(TextParts(r.Content), <<"\n">>)
      draft == IF app = "itsm"
                 THEN inferAccessRequestDraft(userMessage, uuid, now)
                 ELSE ticketDraft
      withAttrs == SetAttributes(spans[turnSpan],
                                 TurnEndAttrs(app, text, r.Usage, draft))
  IN /\ err' = "nil"
     /\ resp' = r
     /\ responseText' = text
     /\ ticketDraft' = draft
     /\ conversationHistory' = Append(conversationHistory, NewAssistantMessage(text))
     /\ spans' = [spans EXCEPT ![turnSpan] = End(withAttrs)]
     /\ queue' = OnEnd(queue, turnSpan, withAttrs)

ModelReturn ==
  /\ pc = "call"
  /\ \/ TurnFailed
     \/ \E r \in Responses, uuid \in UUIDs, now \in Timestamps :
          TurnSucceeded(r, uuid, now)
  /\ pc' = "read"
  /\ UNCHANGED << app, langsmithKey, anthropicKey, threadID, nread, line, userMessage,
                  turnSpan, modelCalls, exported, flushCalls, tpShutdown >>

(***************************************************************************)
(* The quit branch: tp.ForceFlush(ctx), then the return from main runs the *)
(* deferred shutdown closure.                                              *)
(***************************************************************************)
\* variant: an export leaves the newest queued span in the queue
ExportQueue_KeepsLast(ok) ==
  /\ exported' = IF ok /\ queue # <<>>
                   THEN exported \o SubSeq(queue, 1, Len(queue) - 1)
                   ELSE exported
  /\ queue' = IF queue = <<>> THEN <<>> ELSE << queue[Len(queue)] >>

\* the exporter is handed the queued spans; a failed export loses them
ExportQueue(ok) ==
  /\ exported' = IF ok THEN exported \o queue ELSE exported
  /\ queue' = <<>>

\* variant: the quit branch returns without flushing
ForceFlush_Skipped ==
  /\ pc = "quit"
  /\ pc' = "return"
  /\ UNCHANGED << app, langsmithKey, anthropicKey, threadID, nread, line,
                  userMessage, err, conversationHistory, spans, turnSpan, resp,
                  responseText, ticketDraft, modelCalls, queue, exported,
                  flushCalls, tpShutdown >>

ForceFlush ==
  /\ pc = "quit"
  /\ \E ok \in BOOLEAN :
       /\ ExportQueue(ok)
       /\ err' = IF ok THEN "nil" ELSE "flush"
       /\ flushCalls' = Append(flushCalls,
                               [ op |-> "ForceFlush", hasDeadline |-> FALSE,
                                 timeout |-> 0, ok |-> ok ])
  /\ pc' = "return"
  /\ UNCHANGED << app, langsmithKey, anthropicKey, threadID, nread, line, userMessage,
                  conversationHistory, spans, turnSpan, resp, responseText,
                  ticketDraft, modelCalls, tpShutdown >>

\* variant: the process exits without running the deferred closure
DeferredShutdown_Skipped ==
  /\ pc = "return"
  /\ pc' = "exited"
  /\ UNCHANGED << app, langsmithKey, anthropicKey, threadID, nread, line,
                  userMessage, err, conversationHistory, spans, turnSpan, resp,
                  responseText, ticketDraft, modelCalls, queue, exported,
                  flushCalls, tpShutdown >>

DeferredShutdown ==
  /\ pc = "return"
  /\ \E ok \in BOOLEAN :
       /\ ExportQueue(ok)
       /\ flushCalls' = Append(flushCalls,
                               [ op |-> "Shutdown", hasDeadline |-> TRUE,
                                 timeout |-> ShutdownTimeoutSec, ok |-> ok ])
  /\ tpShutdown' = TRUE
  /\ pc' = "exited"
  /\ UNCHANGED << app, langsmithKey, anthropicKey, threadID, nread, line, userMessage,
                  err, conversationHistory, spans, turnSpan, resp, responseText,
                  ticketDraft, modelCalls >>

(***************************************************************************)
(* The batch span processor's background export (batch timeout 1 s).       *)
(***************************************************************************)
BatchExport ==
  /\ pc \in {"read", "call", "quit", "return"}
  /\ ~tpShutdown
  /\ queue # <<>>
  /\ \E ok \in BOOLEAN : ExportQueue(ok)
  /\ UNCHANGED << app, langsmithKey, anthropicKey, pc, threadID, nread, line,
                  userMessage, err, conversationHistory, spans, turnSpan, resp,
                  responseText, ticketDraft, modelCalls, flushCalls, tpShutdown >>

Next ==
  \/ Startup
  \/ ReadLine
  \/ ModelReturn
  \/ ForceFlush
  \/ DeferredShutdown
  \/ BatchExport

Spec == Init /\ [][Next]_vars

(***************************************************************************)
(* inferAccessRequestDraft on its own: the message is any of               *)
(* DraftMessages, the step applies the function to it.                     *)
(***************************************************************************)
InitDraft ==
  /\ app = "itsm"
  /\ langsmithKey = "key"
  /\ anthropicKey = "key"
  /\ pc = "infer"
  /\ threadID \in UUIDs
  /\ nread = 0
  /\ line = <<>>
  /\ userMessage \in DraftMessages
  /\ err = "nil"
  /\ conversationHistory = <<>>
  /\ spans = <<>>
  /\ turnSpan = 0
  /\ resp = NoResponse
  /\ responseText = <<>>
  /\ ticketDraft = NoDraft
  /\ modelCalls = <<>>
  /\ queue = <<>>
  /\ exported = <<>>
  /\ flushCalls = <<>>
  /\ tpShutdown = FALSE

InferDraft ==
  /\ pc = "infer"
  /\ \E uuid \in UUIDs, now \in Timestamps :
       ticketDraft' = inferAccessRequestDraft(userMessage, uuid, now)
  /\ pc' = "inferred"
  /\ UNCHANGED << app, langsmithKey, anthropicKey, threadID, nread, line,
                  userMessage, err, conversationHistory, spans, turnSpan, resp,
                  responseText, modelCalls, queue, exported, flushCalls,
                  tpShutdown >>

NextDraft == InferDraft

SpecDraft == InitDraft /\ [][NextDraft]_vars

(***************************************************************************)
(* Reading spans and the transcript.                                       *)
(***************************************************************************)
\* the positions of a key in a sequence of attributes
AttrPositions(attrs, k) == { i \in 1..Len(attrs) : attrs[i][1] = k }

HasAttr(attrs, k) == AttrPositions(attrs, k) # {}

\* the value of a key that occurs in the attributes
GetAttr(attrs, k) == attrs[CHOOSE i \in AttrPositions(attrs, k) : TRUE][2]

\* every attribute a call has passed to the span, recorded or not
RECURSIVE AllAttrsOf(_)
AllAttrsOf(events) ==
  IF events = <<>> THEN <<>> ELSE Head(events).attrs \o AllAttrsOf(Tail(events))

StartAttrs(span) == span.events[1].attrs

EndedSpans == { i \in 1..Len(spans) : IsEnded(spans[i]) }

EntriesOf(role) ==
  { i \in 1..Len(conversationHistory) : conversationHistory[i].role = role }

TypeOK ==
  /\ pc \in {"start", "fatal", "read", "call", "quit", "return", "exited",
             "infer", "inferred"}
  /\ nread \in 0..MaxReads
  /\ turnSpan \in 0..Len(spans)
  /\ Len(spans) <= MaxTurns

(***************************************************************************)
(* C1: every processed turn opens exactly one span and closes exactly that *)
(* span, on the success path and on the error path: between turns the     *)
(* number of spans opened, the number closed and the number of turns       *)
(* processed are equal, during a model call exactly the current turn's     *)
(* span is open, and no span is ever closed twice.                         *)
(***************************************************************************)
C1_OpenCloseCount ==
  /\ Len(spans) = Cardinality(EntriesOf("user"))
  /\ Len(spans) = Len(modelCalls)
  /\ \A i \in 1..Len(spans) : EndCalls(spans[i]) <= 1
  /\ pc = "call" =>
       /\ turnSpan = Len(spans)
       /\ EndedSpans = 1..(Len(spans) - 1)
       /\ GetAttr(StartAttrs(spans[turnSpan]), "gen_ai.prompt") = userMessage
  /\ pc \in {"read", "quit", "return", "exited"} =>
       EndedSpans = 1..Len(spans)

\* two turns have been processed, one that failed and one that succeeded
C1_Witness ==
  /\ pc = "read"
  /\ Len(spans) = 2
  /\ \E i, j \in 1..2 :
       /\ ~HasAttr(RecordedAttrs(spans[i]), "gen_ai.completion")
       /\ HasAttr(RecordedAttrs(spans[j]), "gen_ai.completion")

(***************************************************************************)
(* C2: every span carries exactly one session_id attribute, set at its     *)
(* creation, whose value is the thread identifier generated at session     *)
(* start, and the thread identifier never changes once the loop runs.      *)
(***************************************************************************)
C2_SessionIdIsThreadId ==
  /\ [](\A i \in 1..Len(spans) :
          /\ Cardinality(AttrPositions(AllAttrsOf(spans[i].events),
                                       "langsmith.metadata.session_id")) = 1
          /\ HasAttr(StartAttrs(spans[i]), "langsmith.metadata.session_id")
          /\ GetAttr(StartAttrs(spans[i]), "langsmith.metadata.session_id") = threadID
          /\ threadID \in UUIDs)
  /\ [][pc # "start" => threadID' = threadID]_vars

\* two spans of a session whose thread id is the second of the identifiers
C2_Witness ==
  /\ Len(spans) = 2
  /\ threadID = <<"b","8","1","d","4","4","a","a","-","0","c","3","e","-","4","f","6","b","-","8","d","2","f","-","c","0","f","f","e","e","0","0","0","0","0","2">>
  /\ \A i \in 1..2 : IsEnded(spans[i])

(***************************************************************************)
(* C3: a turn whose model call fails leaves the transcript one entry       *)
(* longer than before the turn: the turn's start appends the user entry,   *)
(* the failure appends nothing, the turn's span is closed, and the loop    *)
(* is back at reading input.                                               *)
(***************************************************************************)
C3_FailedTurnAddsOnlyUserEntry ==
  [][ /\ (pc = "read" /\ pc' = "call") =>
            /\ Len(conversationHistory') = Len(conversationHistory) + 1
            /\ SubSeq(conversationHistory', 1, Len(conversationHistory))
                 = conversationHistory
            /\ conversationHistory'[Len(conversationHistory')]
                 = [role |-> "user", text |-> userMessage']
      /\ (pc = "call" /\ err' = "api") =>
            /\ conversationHistory' = conversationHistory
            /\ conversationHistory[Len(conversationHistory)].role = "user"
            /\ IsEnded(spans'[turnSpan])
            /\ ~IsEnded(spans[turnSpan])
            /\ pc' = "read"
    ]_vars

\* a failed turn after a successful one: three entries, the last a user entry
C3_Witness ==
  /\ pc = "read"
  /\ err = "api"
  /\ Len(conversationHistory) = 3
  /\ conversationHistory[3].role = "user"
  /\ IsEnded(spans[2])

(***************************************************************************)
(* C4 as stated: the quit command makes exactly one flush call, that call  *)
(* has a positive bounded timeout, and no span exists for the quit line.   *)
(* A flush call is a call that makes the provider export what is queued.   *)
(***************************************************************************)
C4_OneBoundedFlush ==
  pc = "exited" =>
    /\ Len(flushCalls) = 1
    /\ \A i \in 1..Len(flushCalls) :
         flushCalls[i].hasDeadline /\ flushCalls[i].timeout > 0
    /\ \A i \in 1..Len(spans) :
         ToLower(GetAttr(StartAttrs(spans[i]), "gen_ai.prompt")) # <<"q","u","i","t">>

(***************************************************************************)
(* C4 amended: the quit command makes exactly one ForceFlush call, with a  *)
(* context that has no deadline, followed by exactly one Shutdown call     *)
(* of the deferred closure, bounded by the 10 second timeout; both happen  *)
(* before the process has exited, and reading the quit line creates no     *)
(* span.                                                                   *)
(***************************************************************************)
C4_FlushThenBoundedShutdown ==
  /\ [](/\ pc \in {"start", "read", "call", "quit"} => flushCalls = <<>>
        /\ pc = "return" =>
             /\ Len(flushCalls) = 1
             /\ flushCalls[1].op = "ForceFlush"
             /\ ~flushCalls[1].hasDeadline
        /\ pc = "exited" =>
             /\ Len(flushCalls) = 2
             /\ flushCalls[1].op = "ForceFlush"
             /\ ~flushCalls[1].hasDeadline
             /\ flushCalls[2].op = "Shutdown"
             /\ flushCalls[2].hasDeadline
             /\ flushCalls[2].timeout = 10
        /\ \A i \in 1..Len(spans) :
             ToLower(GetAttr(StartAttrs(spans[i]), "gen_ai.prompt")) # <<"q","u","i","t">>)
  /\ [][pc' = "quit" => spans' = spans]_vars

\* the process has exited through quit after a turn
C4_Witness ==
  /\ pc = "exited"
  /\ ToLower(userMessage) = <<"q","u","i","t">>
  /\ Len(spans) >= 1
  /\ flushCalls # <<>>

\* every character of the line is white space
AllSpace(l) == \A i \in 1..Len(l) : IsSpace(l[i])

(***************************************************************************)
(* C5: reading a line that is empty or consists of white space only        *)
(* changes nothing: no span is created, the transcript is unchanged, no    *)
(* model call and no flush is made, and the loop is back at the prompt.    *)
(***************************************************************************)
C5_EmptyLineIsNoOp ==
  [][ (pc = "read" /\ nread' = nread + 1 /\ err' = "nil" /\ AllSpace(line')) =>
        /\ pc' = "read"
        /\ UNCHANGED << spans, turnSpan, conversationHistory, modelCalls,
                        flushCalls, queue, exported, tpShutdown >>
    ]_vars

\* a white-space line has been read after a turn
C5_Witness ==
  /\ pc = "read"
  /\ err = "nil"
  /\ line = <<" ","\t"," ","\n">>
  /\ userMessage = <<>>
  /\ Len(spans) = 1

\* the line is the word quit in any letter case between white space
IsQuitLine(l) ==
  \E i \in 1..(Len(l) - 3) :
    /\ \A k \in 1..(i - 1) : IsSpace(l[k])
    /\ \A k \in (i + 4)..Len(l) : IsSpace(l[k])
    /\ l[i] \in {"q", "Q"}
    /\ l[i + 1] \in {"u", "U"}
    /\ l[i + 2] \in {"i", "I"}
    /\ l[i + 3] \in {"t", "T"}

(***************************************************************************)
(* C6: a line that was read leads to the exit branch exactly when it is    *)
(* the quit keyword in any letter case, surrounded by white space only;    *)
(* taking the exit branch changes neither the transcript nor the spans,    *)
(* and nothing changes them afterwards.                                    *)
(***************************************************************************)
C6_ExitExactlyOnQuit ==
  [][ /\ (pc = "read" /\ nread' = nread + 1 /\ err' = "nil") =>
            /\ (pc' = "quit") <=> IsQuitLine(line')
            /\ (pc' = "quit") =>
                 conversationHistory' = conversationHistory /\ spans' = spans
      /\ pc \in {"quit", "return", "exited"} =>
            conversationHistory' = conversationHistory /\ spans' = spans
    ]_vars

\* the mixed-case quit line has been read after a turn on a line that
\* contains the keyword
C6_Witness ==
  /\ pc = "quit"
  /\ line = <<" "," ","Q","u","I","t"," ","\r","\n">>
  /\ Len(conversationHistory) >= 1
  /\ conversationHistory[1] = [role |-> "user", text |-> <<"p","l","e","a","s","e"," ","q","u","i","t">>]

\* the texts of the text blocks of a response, in the order returned
Segments(r) ==
  LET sel == SelectSeq(r.Content, LAMBDA b : b.Type = "text")
  IN IF sel = <<>> THEN <<>> ELSE [i \in 1..Len(sel) |-> sel[i].Text]

\* where the i-th part starts in the joined text, less one
RECURSIVE PartOffset(_, _)
PartOffset(parts, i) ==
  IF i = 1 THEN 0 ELSE PartOffset(parts, i - 1) + Len(parts[i - 1]) + 1

\* out is the parts in order with exactly one newline between neighbours
NewlineJoined(parts, out) ==
  /\ Len(out) = IF parts = <<>> THEN 0
                ELSE PartOffset(parts, Len(parts)) + Len(parts[Len(parts)])
  /\ \A i \in 1..Len(parts) :
       SubSeq(out, PartOffset(parts, i) + 1, PartOffset(parts, i) + Len(parts[i]))
         = parts[i]
  /\ \A i \in 1..(Len(parts) - 1) :
       out[PartOffset(parts, i) + Len(parts[i]) + 1] = "\n"

(***************************************************************************)
(* C7: when a model call succeeds, the completion text is the returned     *)
(* text segments in order with one newline between neighbours (Hello and   *)
(* there give Hello, newline, there), and that same text is the span's     *)
(* completion attribute and the assistant entry appended to the            *)
(* transcript.                                                             *)
(***************************************************************************)
C7_CompletionIsNewlineJoin ==
  [][ (pc = "call" /\ pc' = "read" /\ err' = "nil") =>
        /\ NewlineJoined(Segments(resp'), responseText')
        /\ (Segments(resp') = << <<"H","e","l","l","o">>, <<"t","h","e","r","e">> >>) =>
             responseText' = <<"H","e","l","l","o","\n","t","h","e","r","e">>
        /\ HasAttr(RecordedAttrs(spans'[turnSpan]), "gen_ai.completion")
        /\ GetAttr(RecordedAttrs(spans'[turnSpan]), "gen_ai.completion")
             = responseText'
        /\ conversationHistory'
             = Append(conversationHistory,
                      [role |-> "assistant", text |-> responseText'])
    ]_vars

\* a turn has succeeded with the two segments Hello and there
C7_Witness ==
  /\ pc = "read"
  /\ err = "nil"
  /\ Segments(resp) = << <<"H","e","l","l","o">>, <<"t","h","e","r","e">> >>
  /\ responseText = <<"H","e","l","l","o","\n","t","h","e","r","e">>
  /\ conversationHistory # <<>>
  /\ conversationHistory[Len(conversationHistory)]
       = [role |-> "assistant", text |-> <<"H","e","l","l","o","\n","t","h","e","r","e">>]

(***************************************************************************)
(* C8 as stated: for "I need admin access to Datadog prod for 7 days" the  *)
(* draft has resource datadog_prod, access level admin, duration unknown   *)
(* and risk level high.                                                    *)
(***************************************************************************)
C8_AdminDatadogDraft ==
  (pc = "inferred"
     /\ userMessage = <<"I"," ","n","e","e","d"," ","a","d","m","i","n"," ","a","c","c","e","s","s"," ","t","o"," ","D","a","t","a","d","o","g"," ","p","r","o","d"," ","f","o","r"," ","7"," ","d","a","y","s">>) =>
    /\ ticketDraft.Resource = <<"d","a","t","a","d","o","g","_","p","r","o","d">>
    /\ ticketDraft.AccessLevel = <<"a","d","m","i","n">>
    /\ ticketDraft.Duration = <<"u","n","k","n","o","w","n">>
    /\ ticketDraft.RiskLevel = <<"h","i","g","h">>

(***************************************************************************)
(* C8 amended: for "I need admin access to Datadog prod for 7 days" the    *)
(* draft has resource datadog_prod, access level admin, duration 7d (the   *)
(* message contains "7" and "day") and risk level high.                    *)
(***************************************************************************)
C8_AdminDatadogDraft7d ==
  (pc = "inferred"
     /\ userMessage = <<"I"," ","n","e","e","d"," ","a","d","m","i","n"," ","a","c","c","e","s","s"," ","t","o"," ","D","a","t","a","d","o","g"," ","p","r","o","d"," ","f","o","r"," ","7"," ","d","a","y","s">>) =>
    /\ ticketDraft.Resource = <<"d","a","t","a","d","o","g","_","p","r","o","d">>
    /\ ticketDraft.AccessLevel = <<"a","d","m","i","n">>
    /\ ticketDraft.Duration = <<"7","d">>
    /\ ticketDraft.RiskLevel = <<"h","i","g","h">>

\* the draft of the admin/Datadog message has been inferred
C8_Witness ==
  /\ pc = "inferred"
  /\ userMessage = <<"I"," ","n","e","e","d"," ","a","d","m","i","n"," ","a","c","c","e","s","s"," ","t","o"," ","D","a","t","a","d","o","g"," ","p","r","o","d"," ","f","o","r"," ","7"," ","d","a","y","s">>
  /\ ticketDraft.Type = <<"a","c","c","e","s","s","_","r","e","q","u","e","s","t">>

(***************************************************************************)
(* C9: for "need read access to github for 24 hour window" the draft has   *)
(* resource github, access level read, duration 24h and risk level medium. *)
(***************************************************************************)
C9_ReadGithubDraft ==
  (pc = "inferred"
     /\ userMessage = <<"n","e","e","d"," ","r","e","a","d"," ","a","c","c","e","s","s"," ","t","o"," ","g","i","t","h","u","b"," ","f","o","r"," ","2","4"," ","h","o","u","r"," ","w","i","n","d","o","w">>) =>
    /\ ticketDraft.Resource = <<"g","i","t","h","u","b">>
    /\ ticketDraft.AccessLevel = <<"r","e","a","d">>
    /\ ticketDraft.Duration = <<"2","4","h">>
    /\ ticketDraft.RiskLevel = <<"m","e","d","i","u","m">>

\* the draft of the read/github message has been inferred
C9_Witness ==
  /\ pc = "inferred"
  /\ userMessage = <<"n","e","e","d"," ","r","e","a","d"," ","a","c","c","e","s","s"," ","t","o"," ","g","i","t","h","u","b"," ","f","o","r"," ","2","4"," ","h","o","u","r"," ","w","i","n","d","o","w">>
  /\ ticketDraft.Status = <<"d","r","a","f","t">>

\* the attributes of a span by the time they are set
CreationKeys ==
  { "langsmith.trace.name", "langsmith.metadata.session_id",
    "langsmith.span.kind", "gen_ai.prompt" }

OutputKeys ==
  { "gen_ai.completion", "gen_ai.usage.input_tokens",
    "gen_ai.usage.output_tokens" }

\* the keys a call passes
KeySet(attrs) == { attrs[i][1] : i \in 1..Len(attrs) }

\* the calls on the span that pass the key
EventsSetting(span, k) ==
  { j \in 1..Len(span.events) : HasAttr(span.events[j].attrs, k) }

\* the span is open when call j is made on it
OpenAt(span, j) == \A e \in 1..(j - 1) : span.events[e].op # "End"

(***************************************************************************)
(* C10: every attribute of a span is set exactly once.  The grouping       *)
(* attributes and the prompt are set by the call that creates the span;    *)
(* the completion and the two token counts are set by one later call,      *)
(* made while the span is open, after a model call that succeeded; a span  *)
(* whose model call failed is closed with none of them.                    *)
(***************************************************************************)
C10_AttributesSetOnce ==
  /\ [](\A s \in 1..Len(spans) :
          LET ev == spans[s].events IN
          /\ ev[1].op = "Start"
          /\ CreationKeys \subseteq KeySet(ev[1].attrs)
          /\ OutputKeys \cap KeySet(ev[1].attrs) = {}
          /\ \A j \in 1..Len(ev) :
               /\ Cardinality(KeySet(ev[j].attrs)) = Len(ev[j].attrs)
               /\ j > 1 => ev[j].op # "Start"
               /\ \A j2 \in 1..Len(ev) :
                    j2 # j => KeySet(ev[j].attrs) \cap KeySet(ev[j2].attrs) = {}
               /\ (j > 1 /\ ev[j].attrs # <<>>) =>
                    /\ ev[j].op = "SetAttributes"
                    /\ OpenAt(spans[s], j)
                    /\ OutputKeys \subseteq KeySet(ev[j].attrs))
  /\ [][ /\ (pc = "call" /\ err' = "api") =>
              /\ IsEnded(spans'[turnSpan])
              /\ \A k \in OutputKeys : EventsSetting(spans'[turnSpan], k) = {}
         /\ (pc = "call" /\ pc' = "read" /\ err' = "nil") =>
              /\ IsEnded(spans'[turnSpan])
              /\ \A k \in OutputKeys :
                   Cardinality(EventsSetting(spans'[turnSpan], k)) = 1
              /\ GetAttr(RecordedAttrs(spans'[turnSpan]), "gen_ai.completion")
                   = responseText'
              /\ GetAttr(RecordedAttrs(spans'[turnSpan]),
                         "gen_ai.usage.input_tokens") = resp'.Usage.InputTokens
              /\ GetAttr(RecordedAttrs(spans'[turnSpan]),
                         "gen_ai.usage.output_tokens") = resp'.Usage.OutputTokens
       ]_vars

\* an ITSM session whose first turn failed and whose second turn succeeded
C10_Witness ==
  /\ app = "itsm"
  /\ pc = "read"
  /\ Len(spans) = 2
  /\ IsEnded(spans[1]) /\ IsEnded(spans[2])
  /\ EventsSetting(spans[1], "gen_ai.completion") = {}
  /\ EventsSetting(spans[2], "gen_ai.completion") = {2}

\* the calls of the shutdown closure made so far
ShutdownCalls == { i \in 1..Len(flushCalls) : flushCalls[i].op = "Shutdown" }

(***************************************************************************)
(* C11: the tracer shutdown (flush, then release of the tracer resources)  *)
(* runs at most once in a process run, exactly once in a run that has      *)
(* exited, only after the exit command and before the process has exited;  *)
(* the completion of a turn, successful or failed, makes no flush call and *)
(* no shutdown call.                                                       *)
(***************************************************************************)
C11_ShutdownOnceOnExit ==
  /\ [](/\ Cardinality(ShutdownCalls) <= 1
        /\ tpShutdown <=> ShutdownCalls # {}
        /\ pc = "exited" => Cardinality(ShutdownCalls) = 1 /\ tpShutdown
        /\ pc \in {"start", "fatal", "read", "call", "quit", "return"} =>
             ShutdownCalls = {} /\ ~tpShutdown
        /\ ShutdownCalls # {} => IsQuitLine(line))
  /\ [][ /\ pc = "call" => flushCalls' = flushCalls /\ tpShutdown' = tpShutdown
         /\ flushCalls' # flushCalls => pc \in {"quit", "return"}
         /\ tpShutdown' # tpShutdown => pc = "return" /\ pc' = "exited"
       ]_vars

\* the process has exited after a failed and a successful turn
C11_Witness ==
  /\ pc = "exited"
  /\ tpShutdown
  /\ Len(spans) = 2
  /\ Cardinality(EntriesOf("assistant")) = 1

(***************************************************************************)
(* C12: a failed read is skipped: no span is created, the transcript is    *)
(* unchanged, no model call and no flush is made, and the loop is back at  *)
(* reading.                                                                *)
(***************************************************************************)
C12_ReadErrorSkipsTurn ==
  [][ (pc = "read" /\ nread' = nread + 1 /\ err' = "read") =>
        /\ pc' = "read"
        /\ UNCHANGED << spans, turnSpan, conversationHistory, modelCalls,
                        flushCalls, queue, exported, tpShutdown >>
    ]_vars

\* a read has failed after a turn, returning the text quit without newline
C12_Witness ==
  /\ pc = "read"
  /\ err = "read"
  /\ line = <<"q","u","i","t">>
  /\ Len(spans) = 1
  /\ flushCalls = <<>>

\* s is an initial part of t
IsPrefix(s, t) == Len(s) <= Len(t) /\ SubSeq(t, 1, Len(s)) = s

\* the spans whose turn succeeded: they carry a completion
SucceededSpans ==
  { i \in 1..Len(spans) : EventsSetting(spans[i], "gen_ai.completion") # {} }

(***************************************************************************)
(* C13: the transcript only grows at its end, by one entry per step.  It   *)
(* has one user entry per processed turn and one assistant entry per       *)
(* successful turn, each assistant entry directly after the user entry of  *)
(* its turn.  Every model call is passed the whole transcript as it is at  *)
(* the call, whose last entry is the user utterance of the current turn.   *)
(***************************************************************************)
C13_TranscriptAppendOnly ==
  /\ [](/\ Cardinality(EntriesOf("user")) = Len(spans)
        /\ Cardinality(EntriesOf("assistant"))
             = Cardinality(SucceededSpans \cap EndedSpans)
        /\ conversationHistory # <<>> => conversationHistory[1].role = "user"
        /\ \A i \in EntriesOf("assistant") :
             i > 1 /\ conversationHistory[i - 1].role = "user"
        /\ \A c \in 1..Len(modelCalls) :
             LET sent == modelCalls[c].Messages IN
             /\ IsPrefix(sent, conversationHistory)
             /\ Cardinality({ i \in 1..Len(sent) : sent[i].role = "user" }) = c
             /\ sent[Len(sent)]
                  = [ role |-> "user",
                      text |-> GetAttr(StartAttrs(spans[c]), "gen_ai.prompt") ])
  /\ [][ /\ IsPrefix(conversationHistory, conversationHistory')
         /\ Len(conversationHistory') <= Len(conversationHistory) + 1
         /\ (pc = "read" /\ pc' = "call") =>
              /\ Len(modelCalls') = Len(modelCalls) + 1
              /\ modelCalls'[Len(modelCalls')].Messages = conversationHistory'
              /\ conversationHistory'[Len(conversationHistory')]
                   = [role |-> "user", text |-> userMessage']
         /\ (pc = "call" /\ pc' = "read" /\ err' = "nil") =>
              Len(conversationHistory') = Len(conversationHistory) + 1
         /\ (pc = "call" /\ err' = "api") =>
              conversationHistory' = conversationHistory
       ]_vars

\* the second model call of a session is in flight after a successful turn:
\* it was passed three entries
C13_Witness ==
  /\ pc = "call"
  /\ Len(modelCalls) = 2
  /\ Len(modelCalls[2].Messages) = 3
  /\ modelCalls[2].Messages[2].role = "assistant"
  /\ conversationHistory = modelCalls[2].Messages

(***************************************************************************)
(* C14: when the trace backend key or the model backend key is absent,     *)
(* the process ends fatally before the loop: no line is read, no span is   *)
(* created, no model call is made and no flush or shutdown is attempted.   *)
(***************************************************************************)
C14_MissingKeyIsFatal ==
  /\ []((langsmithKey = "" \/ anthropicKey = "") =>
          /\ pc \in {"start", "fatal"}
          /\ nread = 0
          /\ spans = <<>>
          /\ conversationHistory = <<>>
          /\ modelCalls = <<>>
          /\ flushCalls = <<>>
          /\ queue = <<>> /\ exported = <<>>
          /\ ~tpShutdown)
  /\ [][ /\ (pc = "start" /\ (langsmithKey = "" \/ anthropicKey = "")) =>
              pc' = "fatal"
         /\ pc = "fatal" => pc' = "fatal"
       ]_vars

\* the process has ended fatally because only the model backend key is absent
C14_Witness ==
  /\ pc = "fatal"
  /\ langsmithKey = "key"
  /\ anthropicKey = ""
  /\ nread = 0

\* the spans a sequence of snapshots is of
IdsOf(snapshots) == { snapshots[i].id : i \in 1..Len(snapshots) }

\* every flush call made so far completed without error
FlushesOK == \A i \in 1..Len(flushCalls) : flushCalls[i].ok

(***************************************************************************)
(* C15 as stated: when the process has exited through quit and the flush   *)
(* completed without error, every span closed during the session has been  *)
(* exported and none remains buffered.                                     *)
(***************************************************************************)
C15_AllClosedSpansExported ==
  (pc = "exited" /\ FlushesOK) =>
    /\ queue = <<>>
    /\ EndedSpans \subseteq IdsOf(exported)

(***************************************************************************)
(* C15 amended: the flush of the quit branch precedes the exit, and a      *)
(* flush that completes without error exports every closed span that is    *)
(* still buffered when it begins and leaves none buffered.  A closed span  *)
(* is buffered when it is ended and leaves the buffer only by an export;   *)
(* a span whose batch a background export failed to send is not exported   *)
(* by the flush.                                                           *)
(***************************************************************************)
C15_FlushExportsBufferedSpans ==
  /\ [](/\ pc = "exited" =>
             flushCalls # <<>> /\ flushCalls[1].op = "ForceFlush"
        /\ pc \in {"return", "exited"} => queue = <<>>
        /\ IdsOf(exported) \cup IdsOf(queue) \subseteq EndedSpans
        /\ IdsOf(exported) \cap IdsOf(queue) = {}
        /\ Cardinality(IdsOf(exported)) = Len(exported)
        /\ Cardinality(IdsOf(queue)) = Len(queue))
  /\ [][ /\ (pc = "quit" /\ pc' = "return" /\ flushCalls'[1].ok) =>
              exported' = exported \o queue /\ queue' = <<>>
         /\ (pc = "call" /\ pc' = "read") =>
              /\ Len(queue') = Len(queue) + 1
              /\ SubSeq(queue', 1, Len(queue)) = queue
              /\ queue'[Len(queue')].id = turnSpan
              /\ exported' = exported
         /\ IsPrefix(exported, exported')
         /\ (pc' = pc /\ queue' # queue) =>
              queue' = <<>> /\ exported' \in {exported, exported \o queue}
       ]_vars

\* the process has exited after two turns with both spans exported
C15_Witness ==
  /\ pc = "exited"
  /\ FlushesOK
  /\ Len(spans) = 2
  /\ IdsOf(exported) = {1, 2}
  /\ queue = <<>>

(***************************************************************************)
(* C16: whatever the interleaving of the background export with the loop,  *)
(* only ended spans are buffered or exported, no call sets an attribute on *)
(* a span after it was ended, and what is buffered or exported of a span   *)
(* is all that was ever set on it: the attributes of creation, with all    *)
(* of the completion and usage attributes after a success and none of      *)
(* them after a failure.                                                   *)
(***************************************************************************)
C16_ExportedSpansAreFinal ==
  /\ [](/\ \A s \in 1..Len(spans) :
             \A j \in 1..Len(spans[s].events) :
               spans[s].events[j].op = "SetAttributes" => OpenAt(spans[s], j)
        /\ pc = "call" => turnSpan \notin IdsOf(queue) \cup IdsOf(exported)
        /\ \A snaps \in {queue, exported} :
             \A i \in 1..Len(snaps) :
               /\ snaps[i].id \in EndedSpans
               /\ snaps[i].name = spans[snaps[i].id].name
               /\ snaps[i].attrs = AllAttrsOf(spans[snaps[i].id].events)
               /\ \A k \in CreationKeys : HasAttr(snaps[i].attrs, k)
               /\ \/ \A k \in OutputKeys : HasAttr(snaps[i].attrs, k)
                  \/ \A k \in OutputKeys : ~HasAttr(snaps[i].attrs, k))
  /\ [][ /\ (pc = "call" /\ pc' = "read" /\ err' = "nil") =>
              \A k \in OutputKeys : HasAttr(queue'[Len(queue')].attrs, k)
         /\ (pc = "call" /\ err' = "api") =>
              \A k \in OutputKeys : ~HasAttr(queue'[Len(queue')].attrs, k)
       ]_vars

\* the first turn's span, with its completion, was exported in the
\* background and the second model call is in flight
C16_Witness ==
  /\ pc = "call"
  /\ Len(spans) = 2
  /\ Len(exported) = 1
  /\ exported[1].id = 1
  /\ HasAttr(exported[1].attrs, "gen_ai.completion")

\* the spans that have been started and not ended
OpenSpans == { i \in 1..Len(spans) : ~IsEnded(spans[i]) }

(***************************************************************************)
(* C17: at most one span is open at any time.  While a model call is in    *)
(* flight exactly the span of its turn is open and the call was made with  *)
(* that span's context; no span is open while the loop waits for input,    *)
(* when the quit flush and the shutdown run, or after the exit.            *)
(***************************************************************************)
C17_OneOpenSpanDuringCall ==
  /\ Cardinality(OpenSpans) <= 1
  /\ Len(modelCalls) = Len(spans)
  /\ \A c \in 1..Len(modelCalls) : modelCalls[c].ctxSpan = c
  /\ pc = "call" =>
       /\ OpenSpans = {turnSpan}
       /\ turnSpan = Len(spans)
       /\ modelCalls[Len(modelCalls)].ctxSpan = turnSpan
  /\ pc # "call" => OpenSpans = {}

\* the second turn's model call is in flight: its span is open, the first
\* turn's span is ended
C17_Witness ==
  /\ pc = "call"
  /\ Len(spans) = 2
  /\ IsEnded(spans[1])
  /\ ~IsEnded(spans[2])
  /\ modelCalls[2].ctxSpan = 2

\* the word occurs in the message, letter case ignored
Occurs(msg, word) ==
  \E i \in 1..(Len(msg) - Len(word) + 1) :
    \A k \in 1..Len(word) : ToLowerChar(msg[i + k - 1]) = word[k]

(***************************************************************************)
(* C18: the access level of a draft is admin whenever admin occurs in the  *)
(* message, read when read occurs without admin, write when write occurs   *)
(* without admin and read, and unknown otherwise; substrings count and     *)
(* letter case does not.                                                   *)
(***************************************************************************)
C18_AccessLevelPriority ==
  pc = "inferred" =>
    ticketDraft.AccessLevel =
      CASE Occurs(userMessage, <<"a","d","m","i","n">>) -> <<"a","d","m","i","n">>
        [] ~Occurs(userMessage, <<"a","d","m","i","n">>) /\ Occurs(userMessage, <<"r","e","a","d">>)
             -> <<"r","e","a","d">>
        [] ~Occurs(userMessage, <<"a","d","m","i","n">>) /\ ~Occurs(userMessage, <<"r","e","a","d">>)
             /\ Occurs(userMessage, <<"w","r","i","t","e">>) -> <<"w","r","i","t","e">>
        [] OTHER -> <<"u","n","k","n","o","w","n">>

\* a draft of a message that names all three levels, admin last
C18_Witness ==
  /\ pc = "inferred"
  /\ userMessage = <<"w","r","i","t","e",","," ","r","e","a","d"," ","a","n","d"," ","A","D","M","I","N"," ","r","i","g","h","t","s">>
  /\ ticketDraft.AccessLevel = <<"a","d","m","i","n">>

(***************************************************************************)
(* C19: the duration of a draft is 24h exactly when the message contains   *)
(* both 24 and hour; otherwise it is 7d exactly when the message contains  *)
(* both 7 and day, anywhere in it; otherwise it is unknown.  24 with day   *)
(* and 7 with hour give no duration.                                       *)
(***************************************************************************)
C19_DurationCombinations ==
  pc = "inferred" =>
    LET is24h == Occurs(userMessage, <<"2","4">>) /\ Occurs(userMessage, <<"h","o","u","r">>)
        is7d  == Occurs(userMessage, <<"7">>) /\ Occurs(userMessage, <<"d","a","y">>)
    IN /\ (ticketDraft.Duration = <<"2","4","h">>) <=> is24h
       /\ ~is24h => ((ticketDraft.Duration = <<"7","d">>) <=> is7d)
       /\ (~is24h /\ ~is7d) => ticketDraft.Duration = <<"u","n","k","n","o","w","n">>
       /\ ticketDraft.Duration \in { <<"2","4","h">>, <<"7","d">>, <<"u","n","k","n","o","w","n">> }
       /\ userMessage \in { <<"2","4"," ","d","a","y","s">>, <<"d","a","y","s"," ","2","4">>, <<"7"," ","h","o","u","r","s">>, <<"h","o","u","r","s"," ","7">> }
            => ticketDraft.Duration = <<"u","n","k","n","o","w","n">>

\* a draft of a message that contains both combinations
C19_Witness ==
  /\ pc = "inferred"
  /\ userMessage = <<"2","4"," ","h","o","u","r","s"," ","o","r"," ","7"," ","d","a","y","s">>
  /\ ticketDraft.Duration = <<"2","4","h">>

\* the resource name the message selects, before the suffix
ResourceBase(msg) ==
  CASE Occurs(msg, <<"g","i","t","h","u","b">>) -> <<"g","i","t","h","u","b">>
    [] ~Occurs(msg, <<"g","i","t","h","u","b">>) /\ Occurs(msg, <<"d","a","t","a","d","o","g">>) -> <<"d","a","t","a","d","o","g">>
    [] ~Occurs(msg, <<"g","i","t","h","u","b">>) /\ ~Occurs(msg, <<"d","a","t","a","d","o","g">>)
         /\ Occurs(msg, <<"s","n","o","w","f","l","a","k","e">>) -> <<"s","n","o","w","f","l","a","k","e">>
    [] OTHER -> <<"u","n","k","n","o","w","n">>

(***************************************************************************)
(* C20: the resource of a draft is the vocabulary word that occurs in the  *)
(* message, github before datadog before snowflake, or unknown when none   *)
(* occurs, letter case ignored; it is followed by _prod, once, exactly     *)
(* when the message contains prod or production, also after unknown.       *)
(***************************************************************************)
C20_ResourceAndProdSuffix ==
  pc = "inferred" =>
    LET marked == Occurs(userMessage, <<"p","r","o","d">>) \/ Occurs(userMessage, <<"p","r","o","d","u","c","t","i","o","n">>)
        base   == ResourceBase(userMessage)
    IN /\ marked => ticketDraft.Resource = base \o <<"_","p","r","o","d">>
       /\ ~marked => ticketDraft.Resource = base
       /\ Len(ticketDraft.Resource) = Len(base) + (IF marked THEN 5 ELSE 0)

\* a draft of a message that names the three resources and both markers
C20_Witness ==
  /\ pc = "inferred"
  /\ userMessage = <<"S","n","o","w","f","l","a","k","e",","," ","D","a","t","a","d","o","g"," ","a","n","d"," ","G","i","t","H","u","b"," ","i","n"," ","p","r","o","d","u","c","t","i","o","n"," ","(","p","r","o","d",")">>
  /\ ticketDraft.Resource = <<"g","i","t","h","u","b","_","p","r","o","d">>

\* the text ends with the suffix
EndsWith(text, suffix) ==
  /\ Len(text) >= Len(suffix)
  /\ SubSeq(text, Len(text) - Len(suffix) + 1, Len(text)) = suffix

(***************************************************************************)
(* C21: the risk level of a draft is high exactly when the message         *)
(* contains prod or admin, letter case ignored, and medium otherwise;      *)
(* there is no other value.  So every draft whose resource ends in _prod   *)
(* or whose access level is admin has risk level high.                     *)
(***************************************************************************)
C21_RiskHighOnProdOrAdmin ==
  pc = "inferred" =>
    LET risky == Occurs(userMessage, <<"p","r","o","d">>) \/ Occurs(userMessage, <<"a","d","m","i","n">>)
    IN /\ (ticketDraft.RiskLevel = <<"h","i","g","h">>) <=> risky
       /\ (ticketDraft.RiskLevel = <<"m","e","d","i","u","m">>) <=> ~risky
       /\ ticketDraft.RiskLevel \in { <<"h","i","g","h">>, <<"m","e","d","i","u","m">> }
       /\ (EndsWith(ticketDraft.Resource, <<"_","p","r","o","d">>)
             \/ ticketDraft.AccessLevel = <<"a","d","m","i","n">>)
            => ticketDraft.RiskLevel = <<"h","i","g","h">>

\* a draft of a message that asks for admin rights outside production
C21_Witness ==
  /\ pc = "inferred"
  /\ userMessage = <<"A","d","m","i","n"," ","G","i","t","H","u","b">>
  /\ ticketDraft.Resource = <<"g","i","t","h","u","b">>
  /\ ticketDraft.AccessLevel = <<"a","d","m","i","n">>
  /\ ticketDraft.RiskLevel = <<"h","i","g","h">>

\* the line was read in full: ReadString returns no error exactly when what
\* it returns ends in the delimiter
ReadInFull(l) == l # <<>> /\ l[Len(l)] = "\n"

(***************************************************************************)
(* C22: once the loop runs, the only way out is a quit line read without   *)
(* an error.  A failed read leaves the loop where it was and flushes       *)
(* nothing, a line that comes with a read error is dropped even when it    *)
(* says quit, and the program flushes only after it has left the loop.     *)
(* So while reads keep failing the loop goes on and the buffered spans     *)
(* are not flushed.                                                        *)
(***************************************************************************)
C22_ExitOnlyThroughQuitLine ==
  /\ [](pc \in {"quit", "return", "exited"} =>
          IsQuitLine(line) /\ ReadInFull(line))
  /\ [](pc \in {"read", "call"} => flushCalls = <<>> /\ ~tpShutdown)
  /\ [][ /\ (pc = "read" /\ err' = "read" /\ nread' = nread + 1) =>
              /\ pc' = "read"
              /\ ~ReadInFull(line')
              /\ UNCHANGED << flushCalls, tpShutdown, exported, queue,
                              conversationHistory, spans >>
         /\ (pc \in {"read", "call"} /\ pc' \notin {"read", "call"}) =>
              /\ pc = "read"
              /\ pc' = "quit"
              /\ nread' = nread + 1
              /\ err' = "nil"
              /\ IsQuitLine(line')
              /\ ReadInFull(line')
     ]_vars

\* a turn has left a span in the buffer and the input then ends in a quit
\* without a newline: the loop goes on reading and nothing was flushed
C22_Witness ==
  /\ pc = "read"
  /\ err = "read"
  /\ line = <<"q","u","i","t">>
  /\ nread >= 2
  /\ queue # <<>>
  /\ flushCalls = <<>>
  /\ ~tpShutdown
====
